---- MODULE Spec2Model ----
(***************************************************************************)
(* A model of the gibberish detector of src/src/lib.rs: is_gibberish and   *)
(* the helpers it calls (clean_text, calculate_transition_score,           *)
(* calculate_vowel_consonant_ratio, generate_ngrams), with the reference   *)
(* n-gram sets copied from the source; and of the model singleton of       *)
(* src/src/model.rs: Model::exists, Model::load and Model::get_or_load,    *)
(* called by several threads.                                              *)
(*                                                                         *)
(* A character is a string: a printable ASCII character is the string made *)
(* of it, and the others carry a name ("SOH" is U+0001, "TAB" U+0009, "LF" *)
(* U+000A, "CR" U+000D, "Eacute" U+00C9 and "eacute" U+00E9, the letter e  *)
(* with an acute accent).  A text is a sequence of characters.             *)
(*                                                                         *)
(* An f64 is the exact rational <<numerator, denominator>> with a positive *)
(* denominator, in lowest terms; <<0, 0>> is NaN, the value of 0.0 / 0.0.  *)
(* Every comparison with NaN is false, as in IEEE 754.                     *)
(***************************************************************************)
EXTENDS Integers, Sequences, FiniteSets, TLC

VARIABLES
    text,       \* the text under test
    pc,         \* the call of test_with_sensitivities that comes next
    verdict,    \* the value each finished call returned, by sensitivity
    measured,   \* what the finished calls computed from the text
    disk,       \* model.rs: what each model path holds on disk
    MODEL,      \* model.rs: the OnceLock<Option<Model>> of the process
    threads,    \* model.rs: where each thread is in its get_or_load call
    runs,       \* model.rs: the runs of the closure of get_or_load
    changes,    \* model.rs: how many times the disk changed
    downloads   \* model.rs: the calls of download_model, in order

textVars == <<text, pc, verdict, measured>>

modelVars == <<disk, MODEL, threads, runs, changes, downloads>>

vars ==
    <<text, pc, verdict, measured, disk, MODEL, threads, runs, changes, downloads>>

(***************************************************************************)
(* Characters                                                              *)
(***************************************************************************)
LowerSeq ==
    << "a", "b", "c", "d", "e", "f", "g", "h", "i", "j", "k", "l", "m",
       "n", "o", "p", "q", "r", "s", "t", "u", "v", "w", "x", "y", "z" >>

UpperSeq ==
    << "A", "B", "C", "D", "E", "F", "G", "H", "I", "J", "K", "L", "M",
       "N", "O", "P", "Q", "R", "S", "T", "U", "V", "W", "X", "Y", "Z" >>

Range(s) == { s[i] : i \in DOMAIN s }

LowerLetters == Range(LowerSeq)

UpperLetters == Range(UpperSeq)

\* static ENGLISH_LETTERS: the 52 ASCII letters.
ENGLISH_LETTERS == LowerLetters \cup UpperLetters

AsciiDigits == { "0", "1", "2", "3", "4", "5", "6", "7", "8", "9" }

\* The lowercase letter of every ASCII capital.
LowerOf == [ c \in UpperLetters |-> LowerSeq[CHOOSE i \in DOMAIN UpperSeq : UpperSeq[i] = c] ]

\* char::is_ascii_digit
is_ascii_digit(c) == c \in AsciiDigits

\* char::is_whitespace, on the characters of the model.
is_whitespace(c) == c \in { " ", "TAB", "LF", "CR" }

\* c < ' ' : the characters below U+0020.
below_space(c) == c \in { "SOH", "TAB", "LF", "CR" }

\* char::to_ascii_lowercase: A-Z to a-z, every other character unchanged.
to_ascii_lowercase(c) == IF c \in UpperLetters THEN LowerOf[c] ELSE c

\* str::to_lowercase, character by character; on the characters of the
\* model it changes the ASCII capitals and U+00C9.
to_lowercase(s) ==
    [ i \in DOMAIN s |->
        IF s[i] = "Eacute" THEN "eacute" ELSE to_ascii_lowercase(s[i]) ]

\* char::is_alphabetic, on the characters of the model.
is_alphabetic(c) == c \in ENGLISH_LETTERS \cup { "Eacute", "eacute" }

(***************************************************************************)
(* f64 arithmetic on exact rationals                                       *)
(***************************************************************************)
NaN == <<0, 0>>

IsNaN(x) == x[2] = 0

RECURSIVE GCD(_, _)
GCD(a, b) == IF b = 0 THEN a ELSE GCD(b, a % b)

\* n / d for the non-negative integers n, d cast to f64: 0/0 is NaN.
FDiv(n, d) ==
    IF d = 0 THEN NaN
    ELSE LET g == GCD(n, d) IN <<n \div g, d \div g>>

FAdd(x, y) ==
    IF IsNaN(x) \/ IsNaN(y) THEN NaN
    ELSE FDiv(x[1] * y[2] + y[1] * x[2], x[2] * y[2])

FMul(x, y) ==
    IF IsNaN(x) \/ IsNaN(y) THEN NaN
    ELSE FDiv(x[1] * y[1], x[2] * y[2])

FLt(x, y) == ~IsNaN(x) /\ ~IsNaN(y) /\ x[1] * y[2] < y[1] * x[2]

FLe(x, y) == ~IsNaN(x) /\ ~IsNaN(y) /\ x[1] * y[2] <= y[1] * x[2]

FGt(x, y) == FLt(y, x)

(***************************************************************************)
(* Reference sets                                                          *)
(***************************************************************************)
\* static COMMON_CHAR_PAIRS
COMMON_CHAR_PAIRS ==
    {
      <<"t","h">>, <<"h","e">>, <<"i","n">>, <<"e","r">>, <<"a","n">>,
      <<"r","e">>, <<"o","n">>, <<"a","t">>, <<"e","n">>, <<"n","d">>,
      <<"t","i">>, <<"e","s">>, <<"o","r">>, <<"t","e">>, <<"o","f">>,
      <<"e","d">>, <<"i","s">>, <<"i","t">>, <<"a","l">>, <<"a","r">>,
      <<"s","t">>, <<"t","o">>, <<"n","t">>, <<"n","g">>, <<"s","e">>,
      <<"h","a">>, <<"a","s">>, <<"o","u">>, <<"i","o">>, <<"l","e">>,
      <<"v","e">>, <<"c","o">>, <<"m","e">>, <<"d","e">>, <<"h","i">>,
      <<"r","i">>, <<"r","o">>, <<"i","c">>, <<"n","e">>, <<"e","a">>,
      <<"r","a">>, <<"c","e">>, <<"l","i">>, <<"c","h">>, <<"l","l">>,
      <<"b","e">>, <<"m","a">>, <<"s","i">>, <<"o","m">>, <<"u","r">> }

\* static COMMON_QUADGRAMS
COMMON_QUADGRAMS ==
    {
      <<"t","i","o","n">>, <<"a","t","i","o">>, <<"t","h","a","t">>, <<"t","h","e","r">>,
      <<"w","i","t","h">>, <<"m","e","n","t">>, <<"i","o","n","s">>, <<"t","h","i","s">>,
      <<"h","e","r","e">>, <<"f","r","o","m">>, <<"o","u","l","d">>, <<"t","i","n","g">>,
      <<"h","i","c","h">>, <<"w","h","i","c">>, <<"c","t","i","o">>, <<"e","v","e","r">>,
      <<"t","h","e","y">>, <<"t","h","i","n">>, <<"h","a","v","e">>, <<"o","t","h","e">>,
      <<"w","e","r","e">>, <<"t","i","v","e">>, <<"o","u","g","h">>, <<"i","g","h","t">> }

\* static COMMON_TRIGRAMS
COMMON_TRIGRAMS ==
    {
      <<"t","h","e">>, <<"a","n","d">>, <<"i","n","g">>, <<"i","o","n">>, <<"t","i","o">>,
      <<"e","n","t">>, <<"a","t","i">>, <<"f","o","r">>, <<"h","e","r">>, <<"t","e","r">>,
      <<"h","a","t">>, <<"t","h","a">>, <<"e","r","e">>, <<"c","o","n">>, <<"r","e","s">>,
      <<"v","e","r">>, <<"a","l","l">>, <<"o","n","s">>, <<"n","c","e">>, <<"m","e","n">>,
      <<"i","t","h">>, <<"t","e","d">>, <<"e","r","s">>, <<"p","r","o">>, <<"t","h","i">>,
      <<"w","i","t">>, <<"a","r","e">>, <<"e","s","s">>, <<"n","o","t">>, <<"i","v","e">>,
      <<"w","a","s">>, <<"e","c","t">>, <<"r","e","a">>, <<"c","o","m">>, <<"e","v","e">>,
      <<"p","e","r">>, <<"i","n","t">>, <<"e","s","t">>, <<"s","t","a">>, <<"c","t","i">>,
      <<"i","c","a">>, <<"i","s","t">>, <<"e","a","r">>, <<"a","i","n">>, <<"o","n","e">>,
      <<"o","u","r">>, <<"i","t","i">>, <<"r","a","t">>, <<"e","l","l">>, <<"a","n","t">> }

\* dictionary::ENGLISH_WORDS, as bin/dictionary.rs generates it: every entry
\* is a line of a word list, trimmed, without whitespace and longer than two
\* bytes.  Two entries stand for the list: "the" is made of common letter
\* pairs, "why" has none and no vowel.
ENGLISH_WORDS == { <<"t", "h", "e">>, <<"w", "h", "y">> }

is_english_word(word) == word \in ENGLISH_WORDS

(***************************************************************************)
(* Helpers of is_gibberish                                                 *)
(***************************************************************************)

\* clean_text dropping the characters that are neither letters, digits nor
\* whitespace instead of writing a space for each.
clean_text_discarding(t) ==
    LET kept == SelectSeq(t, LAMBDA c : c \in ENGLISH_LETTERS \/ is_ascii_digit(c)
                                          \/ is_whitespace(c))
    IN  [ i \in DOMAIN kept |->
            IF is_whitespace(kept[i]) THEN " " ELSE to_ascii_lowercase(kept[i]) ]


\* clean_text followed by a trim of the spaces at both ends.
clean_text_trimming(t) ==
    LET c == [ i \in DOMAIN t |->
                 IF t[i] \in ENGLISH_LETTERS \/ is_ascii_digit(t[i])
                 THEN to_ascii_lowercase(t[i])
                 ELSE " " ]
        kept == { i \in DOMAIN c : c[i] # " " }
    IN  IF kept = {} THEN <<>>
        ELSE SubSeq(c, CHOOSE i \in kept : \A j \in kept : i <= j,
                       CHOOSE i \in kept : \A j \in kept : i >= j)

\* clean_text: one output character per input character; letters and digits
\* lowercased, every other character (whitespace or not) a space.
clean_text(t) ==
    [ i \in DOMAIN t |->
        IF t[i] \in ENGLISH_LETTERS \/ is_ascii_digit(t[i])
        THEN to_ascii_lowercase(t[i])
        ELSE IF is_whitespace(t[i]) THEN " " ELSE " " ]

\* str::split_whitespace: the maximal runs of non-whitespace characters, in
\* order.  split_from(s, i) is the runs of s that start at position i or
\* later, i being the start of s or the position after a run.
RECURSIVE split_from(_, _)
split_from(s, i) ==
    IF \A j \in i..Len(s) : is_whitespace(s[j])
    THEN <<>>
    ELSE LET first == CHOOSE j \in i..Len(s) :
                          /\ ~is_whitespace(s[j])
                          /\ \A k \in i..(j - 1) : is_whitespace(s[k])
             last == CHOOSE j \in first..Len(s) :
                         /\ \A k \in first..j : ~is_whitespace(s[k])
                         /\ (j = Len(s) \/ is_whitespace(s[j + 1]))
         IN  <<SubSeq(s, first, last)>> \o split_from(s, last + 1)

split_whitespace(s) == split_from(s, 1)

\* words.iter().filter(|word| is_english_word(word)).count()
english_word_count(words) ==
    Cardinality({ i \in DOMAIN words : is_english_word(words[i]) })

\* english_word_ratio taking a text without words for all English: 1.0 when
\* there is no word.
english_word_ratio_empty_is_one(words) ==
    IF words = <<>> THEN <<1, 1>>
    ELSE FDiv(english_word_count(words), Len(words))

\* english_word_ratio with the division done on the integers before the
\* cast, (english_word_count / words.len()) as f64: 1.0 when every word is
\* recognized, 0.0 otherwise.
english_word_ratio_integer_division(words) ==
    IF words = <<>> THEN <<0, 1>>
    ELSE <<english_word_count(words) \div Len(words), 1>>

\* english_word_ratio without the words.is_empty() test.
english_word_ratio_unguarded(words) ==
    FDiv(english_word_count(words), Len(words))

\* english_word_count / words.len(), 0.0 when there is no word.
english_word_ratio(words) ==
    IF words = <<>> THEN <<0, 1>>
    ELSE FDiv(english_word_count(words), Len(words))

\* non_printable_count reading the cleaned text, which holds no control
\* character any more, instead of the original text.
non_printable_count_of_cleaned(t) ==
    LET c == clean_text(t) IN
    Cardinality({ i \in DOMAIN c :
                    below_space(c[i]) /\ c[i] \notin { "LF", "CR", "TAB" } })


\* non_printable_count counting every character below ' ', tab, newline and
\* carriage return included.
non_printable_count_all_below_space(t) ==
    Cardinality({ i \in DOMAIN t : below_space(t[i]) })

\* The characters of the original text below ' ' other than \n, \r and \t.
non_printable_count(t) ==
    Cardinality({ i \in DOMAIN t :
                    below_space(t[i]) /\ t[i] \notin { "LF", "CR", "TAB" } })



\* char_counts of calculate_entropy: how many times each character of the
\* lowercased text occurs.
char_counts(t) ==
    LET lowered == to_lowercase(t) IN
    [ c \in Range(lowered) |-> Cardinality({ i \in DOMAIN lowered : lowered[i] = c }) ]

\* calculate_entropy: the sum of -p * log2(p) over the characters, p being
\* count / total_chars, divided by 5.0 and capped at 1.0.  The f64 is a
\* function of total_chars and of the counts, whichever character each
\* belongs to; the model keeps these: total_chars, and for every count the
\* number of characters that occur that many times.
calculate_entropy(t) ==
    LET counts == char_counts(t) IN
    [ total_chars |-> Len(t),
      counts |-> [ n \in { counts[c] : c \in DOMAIN counts } |->
                     Cardinality({ c \in DOMAIN counts : counts[c] = n }) ] ]

\* calculate_transition_score dividing by the number of characters instead
\* of the number of adjacent pairs.
calculate_transition_score_per_character(t) ==
    LET chars == to_lowercase(t) IN
    IF Len(chars) < 2 THEN <<0, 1>>
    ELSE LET total_transitions == Len(chars)
             valid_transitions ==
                 Cardinality({ i \in 1..(Len(chars) - 1) :
                                 <<chars[i], chars[i + 1]>> \in COMMON_CHAR_PAIRS })
         IN  FDiv(valid_transitions, total_transitions)

\* calculate_transition_score reading the text as it is, without
\* to_lowercase.
calculate_transition_score_case_sensitive(t) ==
    LET chars == t IN
    IF Len(chars) < 2 THEN <<0, 1>>
    ELSE LET total_transitions == Len(chars) - 1
             valid_transitions ==
                 Cardinality({ i \in 1..total_transitions :
                                 <<chars[i], chars[i + 1]>> \in COMMON_CHAR_PAIRS })
         IN  FDiv(valid_transitions, total_transitions)

\* calculate_transition_score: the share of adjacent pairs of the lowercased
\* text that are common pairs; 0.0 below two characters.
calculate_transition_score(t) ==
    LET chars == to_lowercase(t) IN
    IF Len(chars) < 2 THEN <<0, 1>>
    ELSE LET total_transitions == Len(chars) - 1
             valid_transitions ==
                 Cardinality({ i \in 1..total_transitions :
                                 <<chars[i], chars[i + 1]>> \in COMMON_CHAR_PAIRS })
         IN  FDiv(valid_transitions, total_transitions)


\* calculate_vowel_consonant_ratio without the consonant_count == 0 test:
\* 0.0 / 0.0 for a text without letters.
calculate_vowel_consonant_ratio_unguarded(t) ==
    LET vowels == { "a", "e", "i", "o", "u" }
        vowel_count == Cardinality({ i \in DOMAIN t : t[i] \in vowels })
        consonant_count ==
            Cardinality({ i \in DOMAIN t :
                            t[i] \notin vowels /\ is_alphabetic(t[i]) })
    IN  FDiv(vowel_count, vowel_count + consonant_count)

\* calculate_vowel_consonant_ratio
calculate_vowel_consonant_ratio(t) ==
    LET vowels == { "a", "e", "i", "o", "u" }
        vowel_count == Cardinality({ i \in DOMAIN t : t[i] \in vowels })
        consonant_count ==
            Cardinality({ i \in DOMAIN t :
                            t[i] \notin vowels /\ is_alphabetic(t[i]) })
    IN  IF consonant_count = 0
        THEN IF vowel_count = 0 THEN <<0, 1>> ELSE <<1, 1>>
        ELSE FDiv(vowel_count, vowel_count + consonant_count)

\* slice::windows(n) over one word: empty when the word is shorter than n.
windows(word, n) ==
    [ i \in 1..(IF Len(word) >= n THEN Len(word) - n + 1 ELSE 0) |->
        SubSeq(word, i, i + n - 1) ]

RECURSIVE flat_map_windows(_, _)
flat_map_windows(words, n) ==
    IF words = <<>> THEN <<>>
    ELSE windows(Head(words), n) \o flat_map_windows(Tail(words), n)


\* generate_ngrams taking the windows of the whole filtered string instead
\* of those of each word.
generate_ngrams_of_whole_string(t, n) ==
    LET lowered == to_lowercase(t)
        filtered == [ i \in DOMAIN lowered |->
                        IF lowered[i] \in ENGLISH_LETTERS \/ is_ascii_digit(lowered[i])
                        THEN lowered[i] ELSE " " ]
    IN  windows(filtered, n)

\* generate_ngrams: lowercase, every character that is neither a letter nor
\* a digit becomes a space, then the windows of every word.
generate_ngrams(t, n) ==
    LET lowered == to_lowercase(t)
        filtered == [ i \in DOMAIN lowered |->
                        IF lowered[i] \in ENGLISH_LETTERS \/ is_ascii_digit(lowered[i])
                        THEN lowered[i] ELSE " " ]
    IN  flat_map_windows(split_whitespace(filtered), n)


\* ngram_score taking a text without n-grams for all common: 1.0 when there
\* is no n-gram.
ngram_score_empty_is_one(grams, reference) ==
    IF grams = <<>> THEN <<1, 1>>
    ELSE FDiv(Cardinality({ i \in DOMAIN grams : grams[i] \in reference }),
              Len(grams))

\* valid.len() / grams.len(), 0.0 when there is no n-gram.
ngram_score(grams, reference) ==
    IF grams = <<>> THEN <<0, 1>>
    ELSE FDiv(Cardinality({ i \in DOMAIN grams : grams[i] \in reference }),
              Len(grams))

trigram_score(cleaned) == ngram_score(generate_ngrams(cleaned, 3), COMMON_TRIGRAMS)

quadgram_score(cleaned) == ngram_score(generate_ngrams(cleaned, 4), COMMON_QUADGRAMS)

\* vowel_consonant_bonus with the open interval, 0.3 < ratio && ratio < 0.7.
vowel_consonant_bonus_open_interval(ratio) ==
    IF FLt(<<3, 10>>, ratio) /\ FLt(ratio, <<7, 10>>) THEN <<1, 10>> ELSE <<0, 1>>

\* (0.3..=0.7).contains(&vowel_consonant_ratio)
vowel_consonant_bonus(ratio) ==
    IF FLe(<<3, 10>>, ratio) /\ FLe(ratio, <<7, 10>>) THEN <<1, 10>> ELSE <<0, 1>>

\* The weighted sum of lines 159-172.
composite_score(word_ratio, transition_score, tri, quad, vc_ratio) ==
    FAdd(FAdd(FAdd(FAdd(FMul(word_ratio, <<4, 10>>),
                        FMul(transition_score, <<25, 100>>)),
                   FMul(tri, <<15, 100>>)),
              FMul(quad, <<1, 10>>)),
         vowel_consonant_bonus(vc_ratio))

\* length_factor with the ranges written without their upper ends (0..20
\* for 0..=20, and so on).
length_factor_exclusive_ranges(len) ==
    IF len < 20 THEN <<7, 10>>
    ELSE IF len < 50 THEN <<8, 10>>
    ELSE IF len < 100 THEN <<9, 10>>
    ELSE IF len < 200 THEN <<1, 1>>
    ELSE <<11, 10>>

\* match cleaned.len() { 0..=20, 21..=50, 51..=100, 101..=200, _ }
length_factor(len) ==
    IF len <= 20 THEN <<7, 10>>
    ELSE IF len <= 50 THEN <<8, 10>>
    ELSE IF len <= 100 THEN <<9, 10>>
    ELSE IF len <= 200 THEN <<1, 1>>
    ELSE <<11, 10>>

\* threshold with the bases of Low and High exchanged.
threshold_swapped(s, len) ==
    FMul(CASE s = "Low" -> <<15, 100>>
           [] s = "Medium" -> <<25, 100>>
           [] s = "High" -> <<35, 100>>,
         length_factor(len))

\* match sensitivity { Low => 0.35, Medium => 0.25, High => 0.15 } * length_factor
threshold(s, len) ==
    FMul(CASE s = "Low" -> <<35, 100>>
           [] s = "Medium" -> <<25, 100>>
           [] s = "High" -> <<15, 100>>,
         length_factor(len))

\* if english_word_ratio > 0.8 { return false; }
almost_all_english(word_ratio) == FGt(word_ratio, <<8, 10>>)

\* multiple_english_words without the sensitivity test.
multiple_english_words_any_sensitivity(count, s) == count >= 3

\* if english_word_count >= 3 && sensitivity != Sensitivity::Low { return false; }
multiple_english_words(count, s) == count >= 3 /\ s # "Low"

\* no_english_poor_transitions without the sensitivity test.
no_english_poor_transitions_any_sensitivity(count, transition_score, s) ==
    count = 0 /\ FLt(transition_score, <<3, 10>>)

\* if english_word_count == 0 && transition_score < 0.3
\*    && sensitivity != Sensitivity::High { return true; }
no_english_poor_transitions(count, transition_score, s) ==
    count = 0 /\ FLt(transition_score, <<3, 10>>) /\ s # "High"

(***************************************************************************)
(* is_gibberish                                                            *)
(***************************************************************************)
\* The values is_gibberish computes from the text alone (lines 82-172).  A
\* field is read by decide only on the paths on which the code computes it.
measure(t) ==
    LET cleaned == clean_text(t)
        words == split_whitespace(cleaned)
        word_ratio == english_word_ratio(words)
        transition_score == calculate_transition_score(t)
        tri == trigram_score(cleaned)
        quad == quadgram_score(cleaned)
        vc_ratio == calculate_vowel_consonant_ratio(cleaned)
    IN  [ len |-> Len(cleaned),
          whole_is_word |-> is_english_word(cleaned),
          words |-> Len(words),
          english_word_count |-> english_word_count(words),
          english_word_ratio |-> word_ratio,
          non_printable_count |-> non_printable_count(t),
          entropy |-> calculate_entropy(t),
          transition_score |-> transition_score,
          trigram_score |-> tri,
          quadgram_score |-> quad,
          vowel_consonant_ratio |-> vc_ratio,
          composite_score |->
              composite_score(word_ratio, transition_score, tri, quad, vc_ratio) ]

\* decide with the last comparison written composite_score <= threshold.
decide_threshold_inclusive(m, s) ==
    IF m.len = 0 THEN TRUE
    ELSE IF m.len < 10 THEN ~m.whole_is_word
    ELSE IF m.non_printable_count > 0 THEN TRUE
    ELSE IF almost_all_english(m.english_word_ratio) THEN FALSE
    ELSE IF multiple_english_words(m.english_word_count, s) THEN FALSE
    ELSE IF no_english_poor_transitions(m.english_word_count, m.transition_score, s)
         THEN TRUE
    ELSE FLe(m.composite_score, threshold(s, m.len))

\* decide with the short-text test written cleaned.len() <= 10.
decide_short_through_10(m, s) ==
    IF m.len = 0 THEN TRUE
    ELSE IF m.len <= 10 THEN ~m.whole_is_word
    ELSE IF m.non_printable_count > 0 THEN TRUE
    ELSE IF almost_all_english(m.english_word_ratio) THEN FALSE
    ELSE IF multiple_english_words(m.english_word_count, s) THEN FALSE
    ELSE IF no_english_poor_transitions(m.english_word_count, m.transition_score, s)
         THEN TRUE
    ELSE FLt(m.composite_score, threshold(s, m.len))

\* decide with the return value of the word-ratio override inverted.
decide_ratio_override_inverted(m, s) ==
    IF m.len = 0 THEN TRUE
    ELSE IF m.len < 10 THEN ~m.whole_is_word
    ELSE IF m.non_printable_count > 0 THEN TRUE
    ELSE IF almost_all_english(m.english_word_ratio) THEN TRUE
    ELSE IF multiple_english_words(m.english_word_count, s) THEN FALSE
    ELSE IF no_english_poor_transitions(m.english_word_count, m.transition_score, s)
         THEN TRUE
    ELSE FLt(m.composite_score, threshold(s, m.len))

\* The returns of is_gibberish, in the order of the code.
decide(m, s) ==
    IF m.len = 0 THEN TRUE
    ELSE IF m.len < 10 THEN ~m.whole_is_word
    ELSE IF m.non_printable_count > 0 THEN TRUE
    ELSE IF almost_all_english(m.english_word_ratio) THEN FALSE
    ELSE IF multiple_english_words(m.english_word_count, s) THEN FALSE
    ELSE IF no_english_poor_transitions(m.english_word_count, m.transition_score, s)
         THEN TRUE
    ELSE FLt(m.composite_score, threshold(s, m.len))

is_gibberish(t, s) == decide(measure(t), s)

(***************************************************************************)
(* model.rs: the files of a model directory and the singleton              *)
(***************************************************************************)
\* const MODEL_FILES, the file names in the order of the source.
MODEL_FILES == << "model.safetensors", "config.json", "tokenizer.json" >>

\* The paths given to get_or_load.
Paths == { "model_a", "model_b" }

\* What a path holds: "." is the directory itself ("absent" or "present"),
\* and each file is "absent", "valid" (it loads) or "invalid" (it is there
\* and does not load).  model_info.txt, which download_model writes, is
\* "absent" or "valid".
Dir(dir, safetensors, config, tokenizer) ==
    ( "." :> dir @@ "model.safetensors" :> safetensors
        @@ "config.json" :> config @@ "tokenizer.json" :> tokenizer
        @@ "model_info.txt" :> "absent" )

DirStates ==
    { Dir("absent", "absent", "absent", "absent"),    \* no directory
      Dir("present", "absent", "absent", "absent"),   \* an empty directory
      Dir("present", "absent", "invalid", "absent"),  \* config.json "{}" alone
      Dir("present", "valid", "valid", "valid"),      \* a model
      Dir("present", "valid", "invalid", "valid"),    \* invalid config
      Dir("present", "invalid", "valid", "valid"),    \* unreadable weights
      Dir("present", "valid", "valid", "invalid") }   \* invalid tokenizer

\* Model::exists: the path exists and so does each of MODEL_FILES.
exists(d) ==
    IF d["."] = "absent" THEN FALSE
    ELSE \A i \in DOMAIN MODEL_FILES : d[MODEL_FILES[i]] # "absent"

\* Model::load: the first failure in the order of the code, or the model,
\* which remembers the path it was loaded from.
load(d, path) ==
    IF d["config.json"] = "absent" THEN <<"Err", "Io">>
    ELSE IF d["config.json"] = "invalid" THEN <<"Err", "Json">>
    ELSE IF d["model.safetensors"] = "absent" THEN <<"Err", "Model">>
    ELSE IF d["model.safetensors"] = "invalid" THEN <<"Err", "Candle">>
    ELSE IF d["tokenizer.json"] = "absent" THEN <<"Err", "Model">>
    ELSE IF d["tokenizer.json"] = "invalid" THEN <<"Err", "Tokenizer">>
    ELSE <<"Ok", path>>

None == <<"None">>

Some(model) == <<"Some", model>>

\* The match of get_or_load with the error passed on instead of logged.
load_result_unwrapped(loaded) ==
    IF loaded[1] = "Ok" THEN Some(loaded[2]) ELSE <<"panic", loaded[2]>>

\* match Self::load(path) { Ok(model) => Some(model), Err(e) => None }
load_result(loaded) ==
    IF loaded[1] = "Ok" THEN Some(loaded[2]) ELSE None

\* What the tokenizer and the model do with a text: tokenizer.encode
\* succeeds or fails, the tensor operations from Tensor::new to to_scalar
\* succeed or fail, and prob is the sigmoid of the logit they give (NaN for
\* a NaN logit).
Collaborations ==
    [ encode : { "ok", "fail" }, forward : { "ok", "fail" },
      prob : { <<0, 1>>, <<1, 2>>, <<1, 1>>, NaN } ]

\* Model::predict_with_score: the first failure in the order of the code, or
\* the probability.
predict_with_score(t, collaboration) ==
    IF collaboration.encode = "fail" THEN <<"Err", "Tokenizer">>
    ELSE IF collaboration.forward = "fail" THEN <<"Err", "Candle">>
    ELSE <<"Ok", collaboration.prob>>

\* predict returning gibberish when predict_with_score fails.
predict_error_is_gibberish(t, collaboration) ==
    IF t = <<>>
    THEN [ scored |-> FALSE, outcome |-> <<>>, value |-> TRUE ]
    ELSE LET outcome == predict_with_score(t, collaboration)
         IN  [ scored |-> TRUE, outcome |-> outcome,
               value |-> IF outcome[1] = "Ok" THEN FLt(outcome[2], <<1, 2>>)
                         ELSE TRUE ]

\* Model::predict: the value it returns, with whether it called
\* predict_with_score and what that returned.
predict(t, collaboration) ==
    IF t = <<>>
    THEN [ scored |-> FALSE, outcome |-> <<>>, value |-> TRUE ]
    ELSE LET outcome == predict_with_score(t, collaboration)
         IN  [ scored |-> TRUE, outcome |-> outcome,
               value |-> IF outcome[1] = "Ok" THEN FLt(outcome[2], <<1, 2>>)
                         ELSE FALSE ]

\* What the network and the file system do with the files download_model
\* asks for.  For each file: "complete", the file is written whole;
\* "http_error", send fails or the status is no success, before the file is
\* created; "read_error", response.read fails after File::create, which
\* ends the while loop without an error and leaves the file truncated;
\* "write_error", write_all or copy fails after File::create and the call
\* returns the error, the file truncated.
Transfers == { "complete", "http_error", "read_error", "write_error" }

Networks == [ { MODEL_FILES[i] : i \in DOMAIN MODEL_FILES } -> Transfers ]

\* The loop of download_model over MODEL_FILES without the
\* file_path.exists() test: every file is requested and created again.
RECURSIVE download_files_overwriting(_, _, _)
download_files_overwriting(d, i, network) ==
    IF i > Len(MODEL_FILES)
    THEN [ dir |-> [ d EXCEPT !["model_info.txt"] = "valid" ],
           requested |-> {}, result |-> "Ok" ]
    ELSE LET filename == MODEL_FILES[i]
             transfer == network[filename]
         IN  IF transfer = "http_error"
             THEN [ dir |-> d, requested |-> { filename }, result |-> "Err" ]
             ELSE IF transfer = "write_error"
             THEN [ dir |-> [ d EXCEPT ![filename] = "invalid" ],
                    requested |-> { filename }, result |-> "Err" ]
             ELSE LET written == IF transfer = "complete" THEN "valid" ELSE "invalid"
                      rest == download_files_overwriting(
                                  [ d EXCEPT ![filename] = written ], i + 1, network)
                  IN  [ rest EXCEPT !.requested = @ \cup { filename } ]

\* The loop of download_model over MODEL_FILES from the i-th file on, and
\* the writing of model_info.txt: the directory it leaves, the files it
\* requested and what the call returns.
RECURSIVE download_files(_, _, _)
download_files(d, i, network) ==
    IF i > Len(MODEL_FILES)
    THEN [ dir |-> [ d EXCEPT !["model_info.txt"] = "valid" ],
           requested |-> {}, result |-> "Ok" ]
    ELSE LET filename == MODEL_FILES[i]
             transfer == network[filename]
         IN  IF d[filename] # "absent"
             THEN download_files(d, i + 1, network)
             ELSE IF transfer = "http_error"
             THEN [ dir |-> d, requested |-> { filename }, result |-> "Err" ]
             ELSE IF transfer = "write_error"
             THEN [ dir |-> [ d EXCEPT ![filename] = "invalid" ],
                    requested |-> { filename }, result |-> "Err" ]
             ELSE LET written == IF transfer = "complete" THEN "valid" ELSE "invalid"
                      rest == download_files(
                                  [ d EXCEPT ![filename] = written ], i + 1, network)
                  IN  [ rest EXCEPT !.requested = @ \cup { filename } ]

\* The number of calls of download_model of a run.
MaxDownloads == 2

\* The number of threads, and of changes of the disk, of a run.
MaxThreads == 2

MaxDiskChanges == 1

Threads == 1..MaxThreads

\* static MODEL: OnceLock::new(), and no thread has called get_or_load.
ModelAtStart ==
    /\ MODEL = [ state |-> "uninit", value |-> <<>> ]
    /\ threads = [ t \in Threads |->
                     [ at |-> "idle", path |-> "", result |-> <<>>, waited |-> FALSE,
                       later |-> FALSE, epoch |-> 0, prediction |-> <<>> ] ]
    /\ runs = <<>>
    /\ changes = 0
    /\ downloads = <<>>

\* is_gibberish does not read the model: the runs of the tests of lib.rs
\* leave the singleton and the disk as they are.
ModelNotUsed ==
    /\ disk = [ p \in Paths |-> Dir("absent", "absent", "absent", "absent") ]
    /\ ModelAtStart

(***************************************************************************)
(* Inputs: a text is up to MaxRuns runs, each a word of Vocabulary written *)
(* one to MaxRepeat times, everything joined by single spaces.             *)
(***************************************************************************)
MaxRuns == 2

MaxRepeat == 4

Sensitivities == { "Low", "Medium", "High" }

Vocabulary ==
    { <<"t", "h", "e">>,                  \* a dictionary word
      <<"w", "h", "y">>,                  \* a dictionary word
      <<"x", "q">>,                       \* no word, no common n-gram
      <<"t", "i", "o", "n">>,             \* no word, common n-grams only
      <<"!", "@", "#", "$", "%">>,        \* symbols
      <<"SOH">> }                         \* a control character

RECURSIVE Repeated(_, _)
Repeated(word, times) ==
    IF times = 1 THEN word ELSE word \o <<" ">> \o Repeated(word, times - 1)

Runs == { Repeated(w, k) : w \in Vocabulary, k \in 1..MaxRepeat }

RECURSIVE TextsOfRuns(_)
TextsOfRuns(n) ==
    IF n = 0 THEN { <<>> }
    ELSE IF n = 1 THEN Runs
    ELSE { t \o <<" ">> \o r : t \in TextsOfRuns(n - 1), r \in Runs }

Texts == UNION { TextsOfRuns(n) : n \in 0..MaxRuns }

(***************************************************************************)
(* The state machine: test_with_sensitivities (lines 383-392) calls        *)
(* is_gibberish on one text at Low, then Medium, then High.                *)
(***************************************************************************)

(***************************************************************************)
(* Inputs of every length: a text is a phrase of Vocabulary words followed *)
(* by exclamation marks, up to MaxLen characters in all.  The exclamation  *)
(* marks add no token, no n-gram, no letter and no common letter pair, so  *)
(* the texts of one phrase without a common pair differ in length only.    *)
(***************************************************************************)
MaxLen == 202

PaddedPhrases ==
    { <<"w", "h", "y", " ", "x", "q">>,
      <<"w", "h", "y", " ", "x", "q", " ", "x", "q">>,
      <<"w", "h", "y", " ", "w", "h", "y", " ", "w", "h", "y", " ",
        "w", "h", "y", " ", "x", "q">>,
      <<"x", "q">>,
      <<"t", "i", "o", "n", " ", "t", "i", "o", "n">> }

Pad(j) == [ i \in 1..j |-> "!" ]

PaddedTexts ==
    { t \in { phrase \o Pad(j) : phrase \in PaddedPhrases, j \in 0..MaxLen } :
        Len(t) <= MaxLen }

Init ==
    /\ text \in Texts
    /\ pc = "Low"
    /\ verdict = <<>>
    /\ measured = <<>>
    /\ ModelNotUsed

\* One call of is_gibberish(text, s).
Call(s) ==
    LET m == measure(text) IN
      /\ measured' = m
      /\ verdict' = verdict @@ (s :> decide(m, s))
      /\ UNCHANGED modelVars

CallLow ==
    /\ pc = "Low"
    /\ Call("Low")
    /\ pc' = "Medium"
    /\ UNCHANGED text

CallMedium ==
    /\ pc = "Medium"
    /\ Call("Medium")
    /\ pc' = "High"
    /\ UNCHANGED text

CallHigh ==
    /\ pc = "High"
    /\ Call("High")
    /\ pc' = "done"
    /\ UNCHANGED text

Next == CallLow \/ CallMedium \/ CallHigh

Spec == Init /\ [][Next]_vars

(***************************************************************************)
(* Inputs in mixed case: a text is up to MaxWords words of CasedVocabulary *)
(* joined by single spaces.                                                *)
(***************************************************************************)
MaxWords == 3

CasedVocabulary ==
    { <<"t", "h", "e">>, <<"T", "H", "E">>, <<"T", "h", "e">>,
      <<"w", "h", "y">>, <<"W", "H", "Y">>,
      <<"x", "q">>,
      <<"t", "i", "o", "n">>, <<"T", "I", "O", "N">>,
      <<"@", "Eacute", "=", "#">> }

RECURSIVE TextsOfWords(_)
TextsOfWords(n) ==
    IF n = 0 THEN { <<>> }
    ELSE IF n = 1 THEN CasedVocabulary
    ELSE { t \o <<" ">> \o w : t \in TextsOfWords(n - 1), w \in CasedVocabulary }

CasedTexts == UNION { TextsOfWords(n) : n \in 0..MaxWords }

\* The same three calls on a text in mixed case.
InitCased ==
    /\ text \in CasedTexts
    /\ pc = "Low"
    /\ verdict = <<>>
    /\ measured = <<>>
    /\ ModelNotUsed

SpecCased == InitCased /\ [][Next]_vars

\* The same three calls on a padded text.
InitPadded ==
    /\ text \in PaddedTexts
    /\ pc = "Low"
    /\ verdict = <<>>
    /\ measured = <<>>
    /\ ModelNotUsed

SpecPadded == InitPadded /\ [][Next]_vars

(***************************************************************************)
(* Inputs with every kind of separator: a text is up to MaxTokens entries  *)
(* of JoinedVocabulary, each joined to the next by nothing, a space, a     *)
(* tab, a newline or a carriage return.                                    *)
(***************************************************************************)
MaxTokens == 2

JoinedVocabulary ==
    { <<"t", "h", "e", " ", "t", "h", "e">>,  \* two dictionary words
      <<"T", "h", "e">>,                      \* a dictionary word, capitalized
      <<"t", "i", "o", "n">>,                 \* no word, common n-grams only
      <<"1", "2", "3", "4", "5">>,            \* digits
      <<"@", "Eacute", "=", "#", "%">>,       \* symbols and a non-ASCII letter
      <<"!">> }                               \* one punctuation mark

Joiners == { <<>>, <<" ">>, <<"TAB">>, <<"LF">>, <<"CR">> }

RECURSIVE TextsOfTokens(_)
TextsOfTokens(n) ==
    IF n = 0 THEN { <<>> }
    ELSE IF n = 1 THEN JoinedVocabulary
    ELSE { t \o j \o w : t \in TextsOfTokens(n - 1), j \in Joiners,
                         w \in JoinedVocabulary }

JoinedTexts == UNION { TextsOfTokens(n) : n \in 0..MaxTokens }

\* The same three calls on a text with separators of every kind.
InitJoined ==
    /\ text \in JoinedTexts
    /\ pc = "Low"
    /\ verdict = <<>>
    /\ measured = <<>>
    /\ ModelNotUsed

SpecJoined == InitJoined /\ [][Next]_vars

(***************************************************************************)
(* Inputs that differ in their characters only: a text is a phrase         *)
(* followed by as many symbols as EntropySymbols has, the first k of them  *)
(* distinct and the others exclamation marks.  The symbols add no token,   *)
(* no n-gram, no letter and no common letter pair.                         *)
(***************************************************************************)
EntropyPhrases ==
    { <<"w", "h", "y", " ", "x", "q">>,
      <<"x", "q">>,
      <<"t", "i", "o", "n", " ", "t", "i", "o", "n">> }

EntropySymbols ==
    << "!", "?", "@", "#", "$", "%", "^", "&", "*", "(", ")", "-", "_", "+" >>

SymbolTail(k) == [ i \in DOMAIN EntropySymbols |-> IF i <= k THEN EntropySymbols[i] ELSE "!" ]

EntropyTexts ==
    { phrase \o SymbolTail(k) : phrase \in EntropyPhrases, k \in DOMAIN EntropySymbols }

\* The same three calls on one of these texts.
InitEntropy ==
    /\ text \in EntropyTexts
    /\ pc = "Low"
    /\ verdict = <<>>
    /\ measured = <<>>
    /\ ModelNotUsed

SpecEntropy == InitEntropy /\ [][Next]_vars

(***************************************************************************)
(* model.rs: threads calling Model::get_or_load.  OnceLock::get_or_init    *)
(* returns the value when the cell is initialized; otherwise one caller    *)
(* runs the closure while the others block until the value is stored.  A   *)
(* thread makes one call; a call that begins after another has returned is *)
(* a later call of the process.  The disk changes between the steps of the *)
(* threads (a download, a removal), not during a step.                     *)
(***************************************************************************)
InitModel ==
    /\ disk \in [ Paths -> DirStates ]
    /\ ModelAtStart
    /\ text = <<>>
    /\ pc = "none"
    /\ verdict = <<>>
    /\ measured = <<>>

\* The call of thread t begins: whether a call has returned before, and how
\* many times the disk has changed so far.
Begin(t, path) ==
    [ threads[t] EXCEPT !.path = path,
                        !.later = \E u \in Threads : threads[u].at = "returned",
                        !.epoch = changes ]

\* get_or_load without the cell: a call that finds a value stored reads the
\* disk at its own path again.
get_or_load_uncached(t, path) ==
    /\ threads[t].at = "idle"
    /\ threads' =
         IF MODEL.state = "init"
         THEN [ threads EXCEPT ![t] =
                  [ Begin(t, path) EXCEPT
                      !.at = "returned",
                      !.result = IF exists(disk[path])
                                 THEN load_result(load(disk[path], path))
                                 ELSE None ] ]
         ELSE [ threads EXCEPT ![t] = [ Begin(t, path) EXCEPT !.at = "initialize" ] ]
    /\ UNCHANGED <<disk, MODEL, runs, changes, textVars, downloads>>

\* Thread t calls Model::get_or_load(path); OnceLock::get_or_init returns
\* the value at once when the cell is initialized.
get_or_load(t, path) ==
    /\ threads[t].at = "idle"
    /\ threads' =
         IF MODEL.state = "init"
         THEN [ threads EXCEPT ![t] =
                  [ Begin(t, path) EXCEPT !.at = "returned", !.result = MODEL.value ] ]
         ELSE [ threads EXCEPT ![t] = [ Begin(t, path) EXCEPT !.at = "initialize" ] ]
    /\ UNCHANGED <<disk, MODEL, runs, changes, textVars, downloads>>

\* initialize running the closure whenever the cell holds no value yet,
\* also while another thread runs it (a check of get() and then a set()).
initialize_unguarded(t) ==
    /\ threads[t].at = "initialize"
    /\ IF MODEL.state = "init"
       THEN /\ threads' = [ threads EXCEPT ![t].at = "returned",
                                           ![t].result = MODEL.value ]
            /\ UNCHANGED <<MODEL, runs>>
       ELSE /\ MODEL' = [ MODEL EXCEPT !.state = "running" ]
            /\ runs' = Append(runs, [ by |-> t, path |-> threads[t].path,
                                      outcome |-> <<>> ])
            /\ threads' = [ threads EXCEPT ![t].at = "exists" ]
    /\ UNCHANGED <<disk, changes, textVars, downloads>>

\* OnceLock::initialize (Once::call_once_force): the first thread to come
\* runs the closure, a thread that comes while it runs blocks, and a thread
\* that comes after the value is stored returns it.
initialize(t) ==
    /\ threads[t].at = "initialize"
    /\ CASE MODEL.state = "uninit" ->
              /\ MODEL' = [ MODEL EXCEPT !.state = "running" ]
              /\ runs' = Append(runs, [ by |-> t, path |-> threads[t].path,
                                        outcome |-> <<>> ])
              /\ threads' = [ threads EXCEPT ![t].at = "exists" ]
         [] MODEL.state = "running" ->
              /\ threads' = [ threads EXCEPT ![t].at = "blocked", ![t].waited = TRUE ]
              /\ UNCHANGED <<MODEL, runs>>
         [] MODEL.state = "init" ->
              /\ threads' = [ threads EXCEPT ![t].at = "returned",
                                             ![t].result = MODEL.value ]
              /\ UNCHANGED <<MODEL, runs>>
    /\ UNCHANGED <<disk, changes, textVars, downloads>>

\* A blocked thread resumes once the value is stored, and returns it.
wake(t) ==
    /\ threads[t].at = "blocked"
    /\ MODEL.state = "init"
    /\ threads' = [ threads EXCEPT ![t].at = "returned", ![t].result = MODEL.value ]
    /\ UNCHANGED <<disk, MODEL, runs, changes, textVars, downloads>>

\* The closure returns value: the cell stores it and the thread returns it.
store(t, value) ==
    /\ MODEL' = [ state |-> "init", value |-> value ]
    /\ runs' = [ n \in DOMAIN runs |->
                   IF runs[n].by = t THEN [ runs[n] EXCEPT !.outcome = value ]
                   ELSE runs[n] ]
    /\ threads' = [ threads EXCEPT ![t].at = "returned", ![t].result = value ]

\* The closure, first part: if !Self::exists(path) { return None; }
closure_exists(t) ==
    /\ threads[t].at = "exists"
    /\ IF exists(disk[threads[t].path])
       THEN /\ threads' = [ threads EXCEPT ![t].at = "load" ]
            /\ UNCHANGED <<MODEL, runs>>
       ELSE store(t, None)
    /\ UNCHANGED <<disk, changes, textVars, downloads>>

\* The closure, second part: match Self::load(path) { ... }
closure_load(t) ==
    /\ threads[t].at = "load"
    /\ store(t, load_result(load(disk[threads[t].path], threads[t].path)))
    /\ UNCHANGED <<disk, changes, textVars, downloads>>

\* The file system changes under the process: download_model creates the
\* directory and its files, a TempDir of the tests or another process removes
\* or rewrites them.  Any directory state may replace the present one.
DiskChange(path) ==
    /\ changes < MaxDiskChanges
    /\ \E d \in DirStates \ { disk[path] } : disk' = [ disk EXCEPT ![path] = d ]
    /\ changes' = changes + 1
    /\ UNCHANGED <<MODEL, threads, runs, textVars, downloads>>

NextModel ==
    \/ \E t \in Threads, path \in Paths : get_or_load(t, path)
    \/ \E t \in Threads : initialize(t)
    \/ \E t \in Threads : wake(t)
    \/ \E t \in Threads : closure_exists(t)
    \/ \E t \in Threads : closure_load(t)
    \/ \E path \in Paths : DiskChange(path)

SpecModel == InitModel /\ [][NextModel]_vars

(***************************************************************************)
(* model.rs: threads that hold the loaded model call Model::predict, each  *)
(* on one text.  The state at the start is the one get_or_load leaves when *)
(* thread 1 loaded the model of model_a and the other threads returned it. *)
(***************************************************************************)
PredictTexts == { <<>>, <<"t", "h", "e">>, <<"x", "q">> }

InitPredict ==
    /\ disk = [ p \in Paths |-> Dir("present", "valid", "valid", "valid") ]
    /\ MODEL = [ state |-> "init", value |-> Some("model_a") ]
    /\ threads = [ t \in Threads |->
                     [ at |-> "returned", path |-> "model_a",
                       result |-> Some("model_a"), waited |-> t # 1,
                       later |-> FALSE, epoch |-> 0, prediction |-> <<>> ] ]
    /\ runs = << [ by |-> 1, path |-> "model_a", outcome |-> Some("model_a") ] >>
    /\ changes = 0
    /\ downloads = <<>>
    /\ text = <<>>
    /\ pc = "none"
    /\ verdict = <<>>
    /\ measured = <<>>

\* Thread t calls model.predict(t) on the model get_or_load returned.
Predict(t, input, collaboration) ==
    /\ threads[t].at = "returned"
    /\ threads[t].result # None
    /\ threads[t].prediction = <<>>
    /\ threads' = [ threads EXCEPT ![t].prediction =
                      [ text |-> input ] @@ predict(input, collaboration) ]
    /\ UNCHANGED <<disk, MODEL, runs, changes, textVars, downloads>>

NextPredict ==
    \E t \in Threads, input \in PredictTexts, collaboration \in Collaborations :
        Predict(t, input, collaboration)

SpecPredict == InitPredict /\ [][NextPredict]_vars

(***************************************************************************)
(* model.rs: calls of download_model, one after the other, on directories  *)
(* that hold whole files or none.  The local operations create_dir_all and *)
(* the writing of model_info.txt succeed.                                  *)
(***************************************************************************)
InitDownload ==
    /\ disk \in [ Paths -> { Dir("absent", "absent", "absent", "absent"),
                            Dir("present", "absent", "absent", "absent"),
                            Dir("present", "absent", "valid", "absent"),
                            Dir("present", "valid", "valid", "valid") } ]
    /\ ModelAtStart
    /\ text = <<>>
    /\ pc = "none"
    /\ verdict = <<>>
    /\ measured = <<>>

\* download_model(path, progress, token): create_dir_all, the token check,
\* then the loop over the files and model_info.txt.
download_model(path, token, network) ==
    /\ Len(downloads) < MaxDownloads
    /\ LET created == [ disk[path] EXCEPT !["."] = "present" ]
           call == IF token
                   THEN download_files(created, 1, network)
                   ELSE [ dir |-> created, requested |-> {}, result |-> "Err" ]
       IN  /\ disk' = [ disk EXCEPT ![path] = call.dir ]
           /\ downloads' = Append(downloads, [ path |-> path,
                                                requested |-> call.requested,
                                                result |-> call.result ])
    /\ UNCHANGED <<MODEL, threads, runs, changes, textVars>>

NextDownload ==
    \E path \in Paths, token \in BOOLEAN, network \in Networks :
        download_model(path, token, network)

SpecDownload == InitDownload /\ [][NextDownload]_vars

(***************************************************************************)
(* Vocabulary of the properties                                            *)
(***************************************************************************)
Done == pc = "done"

\* The sensitivities whose call has returned.
Returned == DOMAIN verdict

\* The text holds a control character other than tab, newline and carriage
\* return.
HasControl == \E i \in DOMAIN text : text[i] \in { "SOH" }

\* The call went past the short-text return and the control-character return.
ScoringPath == measured.len >= 10 /\ ~HasControl

\* At least 80%, and more than 80%, of the tokens are dictionary words.
AtLeast80 ==
    measured.words > 0 /\ 10 * measured.english_word_count >= 8 * measured.words

Above80 == 10 * measured.english_word_count > 8 * measured.words

BelowThreshold(s) == FLt(measured.composite_score, threshold(s, measured.len))

(***************************************************************************)
(* C1  Sensitivity ordering.  For every text, gibberish at High implies    *)
(* gibberish at Medium, which implies gibberish at Low: a text that is not *)
(* gibberish at Low is not gibberish at Medium nor at High.                *)
(***************************************************************************)
C1_SensitivityOrdering ==
    Done =>
      /\ verdict["High"] => verdict["Medium"]
      /\ verdict["Medium"] => verdict["Low"]

\* The three calls returned, and the verdicts differ: gibberish at Low only,
\* decided by the threshold comparison.
C1_Witness ==
    /\ Done
    /\ ScoringPath
    /\ measured.english_word_count \in 1..2
    /\ verdict["Low"] /\ ~verdict["Medium"] /\ ~verdict["High"]

C3_Original ==
    \A s \in Returned : AtLeast80 => ~verdict[s]

\* C3 as amended: a text of normalized length 10 or more without a
\* disallowed control character, at least 80% of whose tokens are dictionary
\* words, is not gibberish at Medium and at High; at Low it is not gibberish
\* when the ratio exceeds 0.8 or the normalized length is at most 100.
C3_DictionaryDominance ==
    \A s \in Returned :
        ( /\ ScoringPath
          /\ AtLeast80
          /\ (s # "Low" \/ Above80 \/ measured.len <= 100) ) => ~verdict[s]

\* Four tokens of five are dictionary words and none has a common n-gram:
\* the ratio is exactly 0.8 and the text is English at the three levels.
C3_Witness ==
    /\ Done
    /\ ScoringPath
    /\ measured.english_word_count = 4 /\ measured.words = 5
    /\ measured.composite_score = <<8, 25>>
    /\ \A s \in Sensitivities : ~verdict[s]

(***************************************************************************)
(* C4  Empty input.  The empty text is gibberish at the three              *)
(* sensitivities, and the normalized text is empty only when the text is.  *)
(***************************************************************************)
C4_EmptyInput ==
    /\ \A s \in Returned : text = <<>> => verdict[s]
    /\ (Returned # {} /\ measured.len = 0) => text = <<>>

C4_Witness ==
    /\ Done
    /\ text = <<>>
    /\ measured.len = 0
    /\ \A s \in Sensitivities : verdict[s]

(***************************************************************************)
(* C5  Totality.  Every call returns a boolean, whatever the text and the  *)
(* sensitivity: the three calls all return, and no ratio a call computes   *)
(* is the undefined 0/0, also when its denominator is zero.                *)
(***************************************************************************)
C5_Totality ==
    /\ \A s \in Returned : verdict[s] \in BOOLEAN
    /\ Done => Returned = Sensitivities
    /\ (Returned # {} /\ measured.len >= 10) => ~IsNaN(measured.english_word_ratio)
    /\ (Returned # {} /\ ScoringPath) =>
          /\ ~IsNaN(measured.transition_score)
          /\ ~IsNaN(measured.trigram_score)
          /\ ~IsNaN(measured.quadgram_score)
          /\ ~IsNaN(measured.vowel_consonant_ratio)
          /\ ~IsNaN(measured.composite_score)

\* A text of symbols only on the scoring path: no token, no n-gram, no
\* letter, and the three calls returned.
C5_Witness ==
    /\ Done
    /\ ScoringPath
    /\ measured.words = 0
    /\ measured.english_word_ratio = <<0, 1>>
    /\ Returned = Sensitivities

(***************************************************************************)
(* C7  Short-text path.  When the normalized text is not empty and shorter *)
(* than 10 characters the verdict is the negation of the dictionary        *)
(* membership of the whole normalized text, at every sensitivity; a        *)
(* normalized text of exactly 10 characters is decided by the control      *)
(* check, the overrides and the threshold comparison instead.              *)
(***************************************************************************)
ScoringVerdict(s) ==
    IF HasControl THEN TRUE
    ELSE IF Above80 THEN FALSE
    ELSE IF measured.english_word_count >= 3 /\ s # "Low" THEN FALSE
    ELSE IF /\ measured.english_word_count = 0
            /\ FLt(measured.transition_score, <<3, 10>>)
            /\ s # "High" THEN TRUE
    ELSE BelowThreshold(s)

C7_ShortTextPath ==
    \A s \in Returned :
        /\ (measured.len > 0 /\ measured.len < 10) =>
               verdict[s] = ~(clean_text(text) \in ENGLISH_WORDS)
        /\ measured.len = 10 => verdict[s] = ScoringVerdict(s)

\* A short text made of two dictionary words: every score is high, and it is
\* gibberish at the three sensitivities because the whole text is no entry.
C7_Witness ==
    /\ Done
    /\ measured.len > 0 /\ measured.len < 10
    /\ measured.english_word_count = 2 /\ measured.words = 2
    /\ \A s \in Sensitivities : verdict[s]

(***************************************************************************)
(* C8  Override 1.  On the scoring path a text more than 80% of whose      *)
(* tokens are dictionary words is not gibberish, at every sensitivity.     *)
(***************************************************************************)
C8_Override1 ==
    \A s \in Returned : (ScoringPath /\ Above80) => ~verdict[s]

C8_Witness ==
    /\ Done
    /\ ScoringPath
    /\ Above80
    /\ almost_all_english(measured.english_word_ratio)
    /\ \A s \in Sensitivities : ~verdict[s]

(***************************************************************************)
(* C9  Override 2.  On the scoring path a text with at least 3 recognized  *)
(* tokens is not gibberish at Medium and at High, whatever its composite   *)
(* score; at Low the rule does not apply, and the verdict is that of the   *)
(* later rules (with a recognized token, the threshold comparison).        *)
(***************************************************************************)
C9_Override2 ==
    /\ \A s \in Returned \ { "Low" } :
          (ScoringPath /\ measured.english_word_count >= 3) => ~verdict[s]
    /\ ( /\ "Low" \in Returned
         /\ ScoringPath
         /\ measured.english_word_count >= 3
         /\ ~Above80 ) => verdict["Low"] = BelowThreshold("Low")

\* Three recognized tokens of seven and a composite score below the Medium
\* threshold: English at Medium and High by the override, gibberish at Low.
C9_Witness ==
    /\ Done
    /\ ScoringPath
    /\ measured.english_word_count >= 3
    /\ BelowThreshold("Medium")
    /\ verdict["Low"] /\ ~verdict["Medium"] /\ ~verdict["High"]

(***************************************************************************)
(* C10  Override 3.  On the scoring path a text with no recognized token   *)
(* and a transition score below 0.3 is gibberish at Low and at Medium,     *)
(* whatever its composite score; at High the rule does not apply and the   *)
(* threshold comparison decides.                                           *)
(***************************************************************************)
C10_Override3 ==
    /\ \A s \in Returned \ { "High" } :
          ( /\ ScoringPath
            /\ measured.english_word_count = 0
            /\ FLt(measured.transition_score, <<3, 10>>) ) => verdict[s]
    /\ ( /\ "High" \in Returned
         /\ ScoringPath
         /\ measured.english_word_count = 0
         /\ FLt(measured.transition_score, <<3, 10>>) ) =>
             verdict["High"] = BelowThreshold("High")

\* No recognized token, a transition score below 0.3 and a composite score
\* above the Low threshold: gibberish at Low and Medium by the override,
\* English at High by the threshold comparison.
C10_Witness ==
    /\ Done
    /\ ScoringPath
    /\ measured.english_word_count = 0
    /\ FLt(measured.transition_score, <<3, 10>>)
    /\ ~BelowThreshold("Low")
    /\ verdict["Low"] /\ verdict["Medium"] /\ ~verdict["High"]

(***************************************************************************)
(* C11  Fallback rule.  On the scoring path, when none of the three        *)
(* overrides applies, the text is gibberish exactly when its composite     *)
(* score is strictly below the effective threshold; a composite score      *)
(* equal to the threshold is not gibberish.                                *)
(***************************************************************************)
NoOverride(s) ==
    /\ ~Above80
    /\ ~(measured.english_word_count >= 3 /\ s # "Low")
    /\ ~( /\ measured.english_word_count = 0
          /\ FLt(measured.transition_score, <<3, 10>>)
          /\ s # "High" )

C11_Fallback ==
    \A s \in Returned :
        (ScoringPath /\ NoOverride(s)) =>
            /\ verdict[s] = BelowThreshold(s)
            /\ measured.composite_score = threshold(s, measured.len) => ~verdict[s]

\* One recognized token of two and no common n-gram: the composite score 0.2
\* is below the Low threshold, equal to the Medium threshold 0.25 * 0.8 and
\* above the High threshold.
C11_Witness ==
    /\ Done
    /\ ScoringPath
    /\ \A s \in Sensitivities : NoOverride(s)
    /\ measured.composite_score = threshold("Medium", measured.len)
    /\ verdict["Low"] /\ ~verdict["Medium"] /\ ~verdict["High"]

(***************************************************************************)
(* C12  Effective threshold.  It is the base of the sensitivity (Low 0.35, *)
(* Medium 0.25, High 0.15) times the factor of the normalized length (0.7  *)
(* up to 20, 0.8 for 21 to 50, 0.9 for 51 to 100, 1.0 for 101 to 200, 1.1  *)
(* above 200), the length counting every character of the normalized text, *)
(* separator spaces included; the threshold comparison uses this value.    *)
(***************************************************************************)
BaseThreshold(s) ==
    CASE s = "Low" -> <<7, 20>>
      [] s = "Medium" -> <<1, 4>>
      [] s = "High" -> <<3, 20>>

LengthAdjustment(len) ==
    CASE len \in 0..20 -> <<7, 10>>
      [] len \in 21..50 -> <<8, 10>>
      [] len \in 51..100 -> <<9, 10>>
      [] len \in 101..200 -> <<1, 1>>
      [] OTHER -> <<11, 10>>

EffectiveThreshold(s) == FMul(BaseThreshold(s), LengthAdjustment(Len(text)))

C12_EffectiveThreshold ==
    \A s \in Returned :
        /\ measured.len = Len(text)
        /\ threshold(s, measured.len) = EffectiveThreshold(s)
        /\ (ScoringPath /\ NoOverride(s)) =>
               verdict[s] = FLt(measured.composite_score, EffectiveThreshold(s))

\* Four recognized tokens of five without a common n-gram, padded to 101
\* characters: the composite score 0.32 is above 0.35 * 0.9, the Low
\* threshold up to 100 characters, and below 0.35 * 1.0, the one from 101.
C12_Witness ==
    /\ Done
    /\ ScoringPath
    /\ NoOverride("Low")
    /\ measured.len = 101
    /\ FLt(FMul(BaseThreshold("Low"), LengthAdjustment(100)), measured.composite_score)
    /\ threshold("Low", measured.len) = <<7, 20>>
    /\ verdict["Low"]

(***************************************************************************)
(* C13  Composite score.  It is 0.40 * word_ratio + 0.25 * transition      *)
(* score + 0.15 * trigram score + 0.10 * quadgram score + 0.10 * bonus,    *)
(* where word_ratio is the recognized tokens over all the tokens of the    *)
(* normalized text, and the bonus is 1 when the vowel/consonant ratio lies *)
(* in the closed interval [0.3, 0.7] and 0 otherwise; the score lies in    *)
(* [0, 1].                                                                 *)
(***************************************************************************)
WordRatio ==
    IF measured.words = 0 THEN <<0, 1>>
    ELSE FDiv(measured.english_word_count, measured.words)

Bonus ==
    IF /\ FLe(<<3, 10>>, measured.vowel_consonant_ratio)
       /\ FLe(measured.vowel_consonant_ratio, <<7, 10>>)
    THEN <<1, 1>> ELSE <<0, 1>>

WeightedSum ==
    FAdd(FMul(<<40, 100>>, WordRatio),
         FAdd(FMul(<<25, 100>>, measured.transition_score),
              FAdd(FMul(<<15, 100>>, measured.trigram_score),
                   FAdd(FMul(<<10, 100>>, measured.quadgram_score),
                        FMul(<<10, 100>>, Bonus)))))

C13_CompositeScore ==
    (Returned # {} /\ ScoringPath) =>
        /\ measured.english_word_ratio = WordRatio
        /\ measured.composite_score = WeightedSum
        /\ FLe(<<0, 1>>, measured.composite_score)
        /\ FLe(measured.composite_score, <<1, 1>>)

\* Six vowels among twenty letters: the ratio is exactly 0.3 and the bonus
\* is granted; with a transition score of 9/25 and every trigram and
\* quadgram common the score is 0.09 + 0.15 + 0.10 + 0.10 = 0.44.
C13_Witness ==
    /\ Done
    /\ ScoringPath
    /\ measured.vowel_consonant_ratio = <<3, 10>>
    /\ measured.transition_score = <<9, 25>>
    /\ measured.composite_score = <<11, 25>>

(***************************************************************************)
(* C14  More evidence is demanded of short samples.  At a fixed            *)
(* sensitivity the effective threshold of a text of normalized length up   *)
(* to 20 is at least as high as that of any longer text, so a composite    *)
(* score that the threshold comparison accepts for the short text is       *)
(* accepted at every greater length too.                                   *)
(***************************************************************************)
C14_ShortDemandsMore ==
    \A s \in Returned :
        (ScoringPath /\ measured.len <= 20) =>
            \A longer \in (measured.len + 1)..MaxLen :
                /\ FLe(threshold(s, longer), threshold(s, measured.len))
                /\ ~BelowThreshold(s) =>
                       ~FLt(measured.composite_score, threshold(s, longer))

(***************************************************************************)
(* C15  The short-circuit rules do not conflict.  For no text and          *)
(* sensitivity do a not-gibberish override (word ratio above 0.8, or at    *)
(* least 3 recognized words and a sensitivity other than Low) and the      *)
(* gibberish override (no recognized word, transition score below 0.3,     *)
(* sensitivity other than High) apply together, so testing the gibberish   *)
(* override first gives the same verdict.                                  *)
(***************************************************************************)
NotGibberishOverride(s) ==
    \/ FGt(measured.english_word_ratio, <<8, 10>>)
    \/ (measured.english_word_count >= 3 /\ s # "Low")

GibberishOverride(s) ==
    /\ measured.english_word_count = 0
    /\ FLt(measured.transition_score, <<3, 10>>)
    /\ s # "High"

GibberishOverrideFirst(s) ==
    IF GibberishOverride(s) THEN TRUE
    ELSE IF NotGibberishOverride(s) THEN FALSE
    ELSE BelowThreshold(s)

C15_NoConflict ==
    /\ Returned # {} =>
          \A s \in Sensitivities : ~(NotGibberishOverride(s) /\ GibberishOverride(s))
    /\ \A s \in Returned : ScoringPath => verdict[s] = GibberishOverrideFirst(s)

\* Three recognized words and a transition score below 0.3: at Medium the
\* not-gibberish override applies, and of the conditions of the gibberish
\* override only the word count fails.
C15_Witness ==
    /\ Done
    /\ ScoringPath
    /\ measured.english_word_count >= 3
    /\ FLt(measured.transition_score, <<3, 10>>)
    /\ NotGibberishOverride("Medium") /\ ~GibberishOverride("Medium")
    /\ BelowThreshold("Medium")
    /\ ~verdict["Medium"]

(***************************************************************************)
(* C16  Normalization preserves symbols.  As stated: a character that is   *)
(* not an ASCII letter or digit, not whitespace, not one of _ - / and not  *)
(* one of , . ! ? (such as '@', '#', '=' or a non-ASCII letter) is kept in *)
(* the normalized text, lowercased where applicable, and is neither        *)
(* replaced by a space nor dropped.                                        *)
(***************************************************************************)
OtherCharacter(c) ==
    /\ c \notin ENGLISH_LETTERS \cup AsciiDigits
    /\ c \notin { " ", "TAB", "LF", "CR" }
    /\ c \notin { "_", "-", "/" }
    /\ c \notin { ",", ".", "!", "?" }

Lowercased(c) == IF c = "Eacute" THEN "eacute" ELSE c

C16_Original ==
    Returned # {} =>
        /\ Len(clean_text(text)) = Len(text)
        /\ \A i \in DOMAIN text :
              OtherCharacter(text[i]) => clean_text(text)[i] = Lowercased(text[i])

(***************************************************************************)
(* C17  High is the level that requires the most confidence to classify a  *)
(* text as English, and Low is the most lenient: a text that is not        *)
(* gibberish at High is not gibberish at Medium nor at Low.                *)
(***************************************************************************)
C17_HighStrictest ==
    Done =>
      /\ ~verdict["High"] => ~verdict["Medium"]
      /\ ~verdict["Medium"] => ~verdict["Low"]

(***************************************************************************)
(* C20  Case insensitivity.  Changing the case of ASCII letters of a text  *)
(* never changes the verdict, at any sensitivity: the verdict of a text is *)
(* that of the text with its ASCII letters in lowercase, and that of the   *)
(* text with its ASCII letters in uppercase.                               *)
(***************************************************************************)
AsciiLowercase(t) ==
    [ i \in DOMAIN t |-> IF t[i] \in UpperLetters THEN LowerOf[t[i]] ELSE t[i] ]

AsciiUppercase(t) ==
    [ i \in DOMAIN t |->
        IF t[i] \in LowerLetters
        THEN UpperSeq[CHOOSE k \in DOMAIN LowerSeq : LowerSeq[k] = t[i]]
        ELSE t[i] ]

C20_CaseInsensitivity ==
    \A s \in Returned :
        /\ verdict[s] = is_gibberish(AsciiLowercase(text), s)
        /\ verdict[s] = is_gibberish(AsciiUppercase(text), s)

\* A text with capitals and small letters whose verdict depends on the
\* level: without a recognized word, it is gibberish at Low and Medium by
\* the gibberish override or the threshold, and English at High.
C20_Witness ==
    /\ Done
    /\ ScoringPath
    /\ \E i \in DOMAIN text : text[i] \in UpperLetters
    /\ \E i \in DOMAIN text : text[i] \in LowerLetters
    /\ text # AsciiLowercase(text) /\ text # AsciiUppercase(text)
    /\ verdict["Low"] /\ ~verdict["High"]

(***************************************************************************)
(* C18  At-most-once model initialization.  Whatever the number of threads *)
(* that call Model::get_or_load before the model is initialized, the load  *)
(* routine (the existence check and Model::load) runs at most once in the  *)
(* process, and every caller gets the result of that single run.           *)
(***************************************************************************)
CallReturned(t) == threads[t].at = "returned"

C18_AtMostOnce ==
    /\ Len(runs) <= 1
    /\ \A t \in Threads :
          CallReturned(t) =>
              /\ Len(runs) = 1
              /\ MODEL.state = "init"
              /\ threads[t].result = runs[1].outcome

\* Two threads called with different paths before the model was
\* initialized: one ran the closure and loaded a model, the other blocked
\* until then, and both returned the model of the first one's path.
C18_Witness ==
    \E t, u \in Threads :
        /\ t # u
        /\ CallReturned(t) /\ CallReturned(u)
        /\ runs[1].by = t
        /\ threads[u].waited
        /\ threads[t].path # threads[u].path
        /\ threads[t].result = Some(threads[t].path)
        /\ threads[u].result = Some(threads[t].path)

(***************************************************************************)
(* C19  Silent degradation.  As stated: when the model directory does not  *)
(* exist, when any of model.safetensors, config.json and tokenizer.json is *)
(* missing, or when loading fails (invalid config, unreadable weights or   *)
(* tokenizer), Model::get_or_load returns None, and it never returns an    *)
(* error or panics.  The disk is read as it was during the call: the runs  *)
(* in which it changed are left out.                                       *)
(***************************************************************************)
Unavailable(path) ==
    \/ disk[path]["."] = "absent"
    \/ \E i \in DOMAIN MODEL_FILES : disk[path][MODEL_FILES[i]] # "valid"

IsOption(value) == value = None \/ \E path \in Paths : value = Some(path)

C19_Original ==
    \A t \in Threads :
        CallReturned(t) =>
            /\ IsOption(threads[t].result)
            /\ (changes = 0 /\ Unavailable(threads[t].path)) =>
                   threads[t].result = None

\* C19 as amended: the call that initializes the singleton returns None
\* when the directory of its path does not exist, a file is missing or
\* loading fails; a call that finds the singleton initialized, or waits for
\* its initialization, with such a path returns None unless the
\* initializing call loaded a model from another path, and then it returns
\* that model.  No call returns an error or panics.
C19_SilentDegradation ==
    \A t \in Threads :
        CallReturned(t) =>
            /\ IsOption(threads[t].result)
            /\ (changes = 0 /\ Unavailable(threads[t].path)) =>
                   \/ threads[t].result = None
                   \/ /\ runs[1].by # t
                      /\ runs[1].path # threads[t].path
                      /\ ~Unavailable(runs[1].path)
                      /\ threads[t].result = Some(runs[1].path)

\* The three files are there and the tokenizer does not load: the thread
\* that ran the closure went through Model::load and returned None.
C19_Witness ==
    \E t \in Threads :
        /\ CallReturned(t)
        /\ changes = 0
        /\ runs[1].by = t
        /\ exists(disk[threads[t].path])
        /\ load(disk[threads[t].path], threads[t].path) = <<"Err", "Tokenizer">>
        /\ threads[t].result = None


(***************************************************************************)
(* C21  Text without letters is gibberish.  A text that contains no ASCII  *)
(* letter (digits, punctuation, symbols, whitespace and non-ASCII          *)
(* characters only) is gibberish at Low, Medium and High, whatever its     *)
(* length, provided every dictionary entry contains an ASCII letter.       *)
(***************************************************************************)
NoAsciiLetter == \A i \in DOMAIN text : text[i] \notin ENGLISH_LETTERS

EntriesHaveLetter ==
    \A w \in ENGLISH_WORDS : \E i \in DOMAIN w : w[i] \in ENGLISH_LETTERS

C21_NoLetters ==
    \A s \in Returned : (EntriesHaveLetter /\ NoAsciiLetter) => verdict[s]

\* Digits, a separator, symbols and a non-ASCII letter, 10 characters or
\* more: no override applies at High, and the composite score 0 is below the
\* threshold.
C21_Witness ==
    /\ Done
    /\ NoAsciiLetter
    /\ Len(text) >= 10
    /\ \E i \in DOMAIN text : text[i] \in AsciiDigits
    /\ \E i \in DOMAIN text : text[i] = "Eacute"
    /\ measured.composite_score = <<0, 1>>
    /\ \A s \in Sensitivities : verdict[s]


(***************************************************************************)
(* C22  Tab, newline and carriage return are plain separators.  They never *)
(* trigger the control-character rule, and replacing one space of a text   *)
(* by a tab, a newline or a carriage return, or one of these by a space or *)
(* by another of them, leaves the verdict unchanged at every sensitivity.  *)
(***************************************************************************)
Separators == { " ", "TAB", "LF", "CR" }

C22_PlainSeparators ==
    Done =>
        /\ ~HasControl => measured.non_printable_count = 0
        /\ \A i \in DOMAIN text :
              text[i] \in Separators =>
                  \A c \in Separators \ { text[i] } :
                      LET replaced == measure([ text EXCEPT ![i] = c ])
                      IN  \A s \in Sensitivities : decide(replaced, s) = verdict[s]

\* Three dictionary words, one of them after a tab, 10 characters or more:
\* the control-character rule would return gibberish, and the text is
\* English at the three levels, as it is with a space for the tab.
C22_Witness ==
    /\ Done
    /\ Len(text) >= 10
    /\ \E i \in DOMAIN text : text[i] = "TAB"
    /\ measured.non_printable_count = 0
    /\ measured.english_word_count = 3
    /\ \A s \in Sensitivities : ~verdict[s]


(***************************************************************************)
(* C23  N-gram extraction.  For n = 3 and n = 4, generate_ngrams splits    *)
(* the normalized text into maximal runs of letters and digits and emits,  *)
(* for each run of length L >= n, its L - n + 1 contiguous substrings of   *)
(* length n in order, duplicates kept; a run shorter than n contributes    *)
(* nothing, and an n-gram never spans two runs.                            *)
(***************************************************************************)
IsAlnum(c) == c \in LowerLetters \cup AsciiDigits

\* The positions at which a maximal run of letters and digits of c starts.
RunStarts(c) ==
    { i \in DOMAIN c : IsAlnum(c[i]) /\ (i = 1 \/ ~IsAlnum(c[i - 1])) }

\* The length of the maximal run that starts at position i.
RunLength(c, i) ==
    Cardinality({ j \in i..Len(c) : \A k \in i..j : IsAlnum(c[k]) })

\* The number of n-grams the property describes: L - n + 1 for every run of
\* length L >= n.
NgramCount(c, n) ==
    LET counts == [ i \in RunStarts(c) |->
                      IF RunLength(c, i) >= n THEN RunLength(c, i) - n + 1 ELSE 0 ]
        RECURSIVE Sum(_)
        Sum(S) == IF S = {} THEN 0
                  ELSE LET i == CHOOSE i \in S : TRUE IN counts[i] + Sum(S \ { i })
    IN  Sum(RunStarts(c))

\* The start positions of the n-grams: the positions from which n characters
\* are letters and digits, that is, lie within one run.
NgramStarts(c, n) ==
    { p \in 1..(Len(c) - n + 1) : \A k \in p..(p + n - 1) : IsAlnum(c[k]) }

C23_NgramExtraction ==
    Done =>
        LET c == clean_text(text) IN
        \A n \in { 3, 4 } :
            LET grams == generate_ngrams(c, n)
                starts == NgramStarts(c, n)
            IN  /\ Len(grams) = NgramCount(c, n)
                /\ Len(grams) = Cardinality(starts)
                /\ \A p \in starts :
                      LET k == Cardinality({ q \in starts : q <= p })
                      IN  grams[k] = SubSeq(c, p, p + n - 1)
                /\ \A k \in DOMAIN grams :
                      \A j \in DOMAIN grams[k] : IsAlnum(grams[k][j])

\* A run of three letters twice and a run of four: the trigram of each first
\* run is kept twice, and the quadgrams come from the last run only.
C23_Witness ==
    /\ Done
    /\ LET c == clean_text(text)
           tri == generate_ngrams(c, 3)
           quad == generate_ngrams(c, 4)
       IN  /\ Cardinality(RunStarts(c)) = 3
           /\ \E i \in RunStarts(c) : RunLength(c, i) = 3
           /\ \E i \in RunStarts(c) : RunLength(c, i) = 4
           /\ Len(tri) = 4
           /\ tri[1] = tri[2]
           /\ Len(quad) = 1


(***************************************************************************)
(* C24  Degenerate ratios resolve to 0.0.  The word ratio of a text with   *)
(* no token, the trigram and quadgram scores of a text with no n-gram of   *)
(* that size, the transition score of a text of fewer than 2 characters    *)
(* and the vowel/consonant ratio of a text with no alphabetic character    *)
(* are exactly 0.0, and each of these features lies in [0, 1] for every    *)
(* text.                                                                   *)
(***************************************************************************)
Zero == <<0, 1>>

InUnitInterval(x) == FLe(<<0, 1>>, x) /\ FLe(x, <<1, 1>>)

C24_DegenerateRatios ==
    Returned # {} =>
        LET c == clean_text(text) IN
        /\ measured.words = 0 => measured.english_word_ratio = Zero
        /\ NgramCount(c, 3) = 0 => measured.trigram_score = Zero
        /\ NgramCount(c, 4) = 0 => measured.quadgram_score = Zero
        /\ Len(text) < 2 => measured.transition_score = Zero
        /\ (\A i \in DOMAIN c : c[i] \notin LowerLetters) =>
               measured.vowel_consonant_ratio = Zero
        /\ InUnitInterval(measured.english_word_ratio)
        /\ InUnitInterval(measured.trigram_score)
        /\ InUnitInterval(measured.quadgram_score)
        /\ InUnitInterval(measured.transition_score)
        /\ InUnitInterval(measured.vowel_consonant_ratio)

\* One punctuation mark: no token, no n-gram, one character, no letter.
C24_Witness ==
    /\ Done
    /\ Len(text) = 1
    /\ measured.words = 0
    /\ NgramCount(clean_text(text), 3) = 0
    /\ \A i \in DOMAIN text : ~is_alphabetic(text[i])
    /\ measured.english_word_ratio = Zero
    /\ measured.trigram_score = Zero
    /\ measured.quadgram_score = Zero
    /\ measured.transition_score = Zero
    /\ measured.vowel_consonant_ratio = Zero


(***************************************************************************)
(* C25  Transition score.  It is the number of adjacent character pairs of *)
(* the lowercased original text that belong to the fixed set of 50 common  *)
(* letter pairs, divided by the number of all adjacent pairs (the          *)
(* character count minus 1); a pair that contains a space, a digit or a    *)
(* symbol, a pair across a word boundary included, counts in the           *)
(* denominator and never in the numerator.                                 *)
(***************************************************************************)
LoweredText == to_lowercase(text)

\* The adjacent pairs of the lowercased text, by the position of their
\* first character; those made of two letters; those that are common.
AdjacentPairs == 1..(Len(text) - 1)

LetterPairs ==
    { i \in AdjacentPairs :
        LoweredText[i] \in LowerLetters /\ LoweredText[i + 1] \in LowerLetters }

CommonLetterPairs ==
    { i \in LetterPairs : <<LoweredText[i], LoweredText[i + 1]>> \in COMMON_CHAR_PAIRS }

C25_TransitionScore ==
    /\ Cardinality(COMMON_CHAR_PAIRS) = 50
    /\ (Returned # {} /\ Len(text) >= 2) =>
          /\ Cardinality(AdjacentPairs) = Len(text) - 1
          /\ measured.transition_score =
                 FDiv(Cardinality(CommonLetterPairs), Cardinality(AdjacentPairs))
          /\ \A i \in AdjacentPairs \ LetterPairs :
                 <<LoweredText[i], LoweredText[i + 1]>> \notin COMMON_CHAR_PAIRS

\* A capitalized word, a separator and digits, nine characters: the pairs
\* "th" and "he" of the lowercased text count, of eight pairs in all.
C25_Witness ==
    /\ Done
    /\ Len(text) = 9
    /\ \E i \in DOMAIN text : text[i] \in UpperLetters
    /\ \E i \in DOMAIN text : text[i] \in AsciiDigits
    /\ \E i \in DOMAIN text : is_whitespace(text[i])
    /\ Cardinality(CommonLetterPairs) = 2
    /\ measured.transition_score = <<1, 4>>


(***************************************************************************)
(* C26  Entropy takes part in the decision.  As stated: the character      *)
(* entropy of the original text influences the verdict, so that two texts  *)
(* that agree on word ratio, recognized-word count, transition score,      *)
(* trigram score, quadgram score, vowel bonus, normalized length and       *)
(* control-character presence and differ in entropy can receive different  *)
(* verdicts: there are two such texts, and a sensitivity at which one is   *)
(* gibberish and the other is not.                                         *)
(***************************************************************************)
SameFeatures(m1, m2) ==
    /\ m1.english_word_ratio = m2.english_word_ratio
    /\ m1.english_word_count = m2.english_word_count
    /\ m1.transition_score = m2.transition_score
    /\ m1.trigram_score = m2.trigram_score
    /\ m1.quadgram_score = m2.quadgram_score
    /\ vowel_consonant_bonus(m1.vowel_consonant_ratio) =
           vowel_consonant_bonus(m2.vowel_consonant_ratio)
    /\ m1.len = m2.len
    /\ (m1.non_printable_count > 0) = (m2.non_printable_count > 0)

IsPrime(p) == p >= 2 /\ \A d \in 2..(p - 1) : p % d # 0

RECURSIVE PrimeExponent(_, _)
PrimeExponent(p, n) == IF n % p = 0 THEN 1 + PrimeExponent(p, n \div p) ELSE 0

\* The exponent of the prime p in the product of count^count over the
\* characters of a text.
RECURSIVE ExponentInProduct(_, _, _)
ExponentInProduct(p, counts, S) ==
    IF S = {} THEN 0
    ELSE LET n == CHOOSE n \in S : TRUE
         IN  counts[n] * n * PrimeExponent(p, n)
               + ExponentInProduct(p, counts, S \ { n })

\* Two texts of the same number of characters have the same entropy exactly
\* when the products of count^count are equal: total_chars * entropy is
\* total_chars * log2(total_chars) - log2(product).
EntropyDiffers(e1, e2) ==
    /\ e1.total_chars = e2.total_chars
    /\ \E p \in 2..e1.total_chars :
          /\ IsPrime(p)
          /\ ExponentInProduct(p, e1.counts, DOMAIN e1.counts)
               # ExponentInProduct(p, e2.counts, DOMAIN e2.counts)

MeasureOfEntropyTexts == [ t \in EntropyTexts |-> measure(t) ]

\* The pairs of texts that agree on the eight features and differ in
\* entropy.
EntropyPairs ==
    { pair \in EntropyTexts \X EntropyTexts :
        /\ SameFeatures(MeasureOfEntropyTexts[pair[1]], MeasureOfEntropyTexts[pair[2]])
        /\ EntropyDiffers(MeasureOfEntropyTexts[pair[1]].entropy,
                          MeasureOfEntropyTexts[pair[2]].entropy) }

\* What is_gibberish returns for a text of EntropyTexts: the verdict of the
\* call when the text is the one under test.
VerdictOf(t, s) ==
    IF t = text /\ s \in Returned THEN verdict[s]
    ELSE decide(MeasureOfEntropyTexts[t], s)

C26_Original ==
    Done =>
        \E pair \in EntropyPairs :
            \E s \in Sensitivities :
                VerdictOf(pair[1], s) # VerdictOf(pair[2], s)


(***************************************************************************)
(* C27  Model::predict always returns a boolean and never propagates a     *)
(* failure: for the empty text it returns true (gibberish) without running *)
(* the model, and when tokenization or inference fails it returns false    *)
(* (not gibberish).                                                        *)
(***************************************************************************)
Predicted(t) == threads[t].prediction # <<>>

C27_PredictTotal ==
    \A t \in Threads :
        Predicted(t) =>
            LET p == threads[t].prediction IN
            /\ p.value \in BOOLEAN
            /\ p.text = <<>> => (p.value = TRUE /\ ~p.scored)
            /\ (p.text # <<>> /\ p.outcome[1] = "Err") => p.value = FALSE
            /\ (p.text # <<>> /\ p.outcome[1] = "Ok") =>
                   p.value = FLt(p.outcome[2], <<1, 2>>)

\* One thread predicted on the empty text and got true without a run of the
\* model; another predicted on a text whose tokenization failed and got
\* false.
C27_Witness ==
    \E t, u \in Threads :
        /\ Predicted(t) /\ Predicted(u)
        /\ threads[t].prediction.text = <<>>
        /\ threads[t].prediction.value = TRUE
        /\ threads[u].prediction.text # <<>>
        /\ threads[u].prediction.outcome = <<"Err", "Tokenizer">>
        /\ threads[u].prediction.value = FALSE


(***************************************************************************)
(* C28  The model singleton is fixed by the first call.  Once one call of  *)
(* Model::get_or_load has completed, every later call of the process       *)
(* returns the same result (the same model, or None), whatever path it is  *)
(* given and whatever files have appeared or disappeared on disk since; a  *)
(* first call that found no model makes every later call return None, also *)
(* after the model files are put in place.                                 *)
(***************************************************************************)
C28_FixedByFirstCall ==
    \A t, u \in Threads :
        (CallReturned(t) /\ CallReturned(u) /\ threads[u].later) =>
            /\ threads[u].result = threads[t].result
            /\ threads[u].result = MODEL.value

\* A first call found no model and returned None; the disk changed, and the
\* path of a call that began afterwards has held a model that loads during
\* the whole of that call, which returned None.
C28_Witness ==
    \E t, u \in Threads :
        /\ CallReturned(t) /\ CallReturned(u)
        /\ runs[1].by = t
        /\ threads[t].result = None
        /\ threads[u].later
        /\ threads[u].epoch = 1 /\ changes = 1
        /\ exists(disk[threads[u].path])
        /\ load(disk[threads[u].path], threads[u].path) = <<"Ok", threads[u].path>>
        /\ threads[u].result = None


(***************************************************************************)
(* C29  A short text is accepted only when it is a bare dictionary word.   *)
(* Normalization writes a space for every character other than an ASCII    *)
(* letter or digit and trims nothing, and the short path looks the whole   *)
(* normalized text up: a text of fewer than 10 characters is not gibberish *)
(* only if it is made of ASCII letters and digits alone and its lowercased *)
(* form is a dictionary entry; a short text with a space, a punctuation    *)
(* mark or another symbol is gibberish at every sensitivity, given that no *)
(* dictionary entry contains a space.                                      *)
(***************************************************************************)
LetterOrDigit(c) == c \in ENGLISH_LETTERS \cup AsciiDigits

NoSpaceInEntries == \A w \in ENGLISH_WORDS : \A i \in DOMAIN w : w[i] # " "

C29_ShortBareWord ==
    (Returned # {} /\ NoSpaceInEntries) =>
        /\ Len(clean_text(text)) = Len(text)
        /\ \A i \in DOMAIN text :
              ~LetterOrDigit(text[i]) => clean_text(text)[i] = " "
        /\ \A s \in Returned :
              Len(text) < 10 =>
                  /\ ~verdict[s] =>
                         /\ \A i \in DOMAIN text : LetterOrDigit(text[i])
                         /\ AsciiLowercase(text) \in ENGLISH_WORDS
                  /\ (\E i \in DOMAIN text : ~LetterOrDigit(text[i])) => verdict[s]

\* A dictionary word followed by a punctuation mark: gibberish at the three
\* sensitivities.
C29_Witness ==
    /\ Done
    /\ Len(text) >= 2 /\ Len(text) < 10
    /\ ~LetterOrDigit(text[Len(text)])
    /\ AsciiLowercase(SubSeq(text, 1, Len(text) - 1)) \in ENGLISH_WORDS
    /\ \A s \in Sensitivities : verdict[s]


(***************************************************************************)
(* C30  download_model never requests nor overwrites a model file that     *)
(* already exists at the target path, in any sequence of calls: a file is  *)
(* created only when it is absent, so a file left truncated by an earlier  *)
(* call that failed part-way is kept as it is by every later call, and     *)
(* Model::exists reports the model as present as soon as the three file    *)
(* names exist, whether or not their contents are complete.                *)
(***************************************************************************)
ModelFileNames == { MODEL_FILES[i] : i \in DOMAIN MODEL_FILES }

====
